---- MODULE Spec2Model ----
(***************************************************************************)
(* Model of the metric aggregation service of main.go: the accept loop     *)
(* with its counting semaphore, the per-connection handlers, the single    *)
(* scheduler goroutine that owns the store, and the pure functions         *)
(* validateName, parseMetric and store.update; and of store.update of the  *)
(* earlier variant of the program (unnamed/part_000), which the handlers   *)
(* call themselves under the store's RWMutex.                              *)
(*                                                                         *)
(* Conventions.  A string is the sequence of its runes (code points).      *)
(* A float64 that holds a whole number is an integer; the one quotient the *)
(* program computes, the mean, is an exact fraction [num, den] in lowest   *)
(* terms.  Time is counted in seconds.                                     *)
(***************************************************************************)
EXTENDS Integers, Sequences, FiniteSets, TLC

\* ------------------------------------------------------------- bounds
SemCapacity == 2      \* slots of the semaphore (main.go makes 10)
MaxConns == 3         \* connections the listener ever hands out
MaxRecords == 2       \* lines that parse into a record, over all connections
MaxNow == 1           \* latest reading of the wall clock, in seconds
MaxFlushes == 1       \* firings of tickerCollection
MaxRawTicks == 1      \* firings of tickerRaw
MaxStrLen == 3        \* length of the exhaustively enumerated names
MaxCallers == 3       \* handlers of the variant that call store.update

\* -------------------------------------------------- program constants
MaxNameLen == 64      \* validateName: len(str) > 64
WindowSecs == 60      \* connHandler: time.Now().Add(-60*time.Second)

\* ------------------------------------------------------------ inputs
\* runes: '-', '0', 'A', 'a', ' ', '!', U+00E9
Hyphen == 45
Alphabet == {45, 48, 65, 97, 32, 33, 233}

\* metric names offered on the wire: "a", "" and "-a"
Names == {<<97>>, <<>>, <<45, 97>>}

\* values offered on the wire
Values == {1, 3}

\* timestamps offered on the wire
Timestamps == {0 - (WindowSecs + 1), 0, MaxNow}

\* what time.Now() may return, and two successive readings of it
Nows == 0..MaxNow
ClockPairs == {n \in Nows \X Nows : n[1] <= n[2]}

Conns == 1..MaxConns

\* the handlers of the variant
Callers == 1..MaxCallers

VARIABLES
    sem,        \* len(sem): occupied slots of the semaphore channel
    accPc,      \* accept loop: "wait" (at sem.Wait) or "accept" (in l.Accept)
    nextConn,   \* next connection the listener hands out
    pc,         \* connHandler position, per connection
    cur,        \* connHandler's parsed metric, per connection
    closed,     \* conn.Close() has been called, per connection
    released,   \* Signal() calls made by the handler, per connection
    rawCount,   \* the global rawCount
    store,      \* store.data: name -> metric
    schedPc,    \* scheduler goroutine position
    schedM,     \* the metric the scheduler received
    schedFrom,  \* the connection it was received from
    flushes,    \* completed flushes
    rawTicks,   \* raw-counter ticks taken
    sent,       \* history: records each handler took to its send on ingress
    folded,     \* history: records passed to store.update, in order
    emitted,    \* history: the lines each flush wrote to os.Stdout
    stderrRaw,  \* record counts written to os.Stderr
    reads,      \* lines that parsed into a record, over all connections
    fnIn,       \* a pure function under test: its input
    fnOut,      \* and its result
    rw,         \* variant: the store's RWMutex, its readers and its writer
    sdata,      \* variant: store.data
    upc,        \* variant: position of each handler in store.update
    um,         \* variant: the parameter m of each call of store.update
    uarg        \* variant, history: the value each call was made with

vars == <<sem, accPc, nextConn, pc, cur, closed, released,
          rawCount, store, schedPc, schedM, schedFrom, flushes,
          rawTicks, sent, folded, emitted, stderrRaw, reads, fnIn, fnOut,
          rw, sdata, upc, um, uarg>>

connVars == <<sem, accPc, nextConn, pc, cur, closed, released, reads>>
schedVars == <<store, schedPc, schedM, schedFrom, flushes, rawTicks>>
histVars == <<sent, folded, emitted, stderrRaw>>
fnVars == <<fnIn, fnOut>>
lockVars == <<rw, sdata, upc, um, uarg>>

\* ----------------------------------------------------- float64 quotient
RECURSIVE GCD(_, _)
GCD(a, b) == IF b = 0 THEN a ELSE GCD(b, a % b)

Abs(x) == IF x < 0 THEN 0 - x ELSE x

\* a / b for b > 0, as a fraction in lowest terms
Quot(a, b) ==
    LET g == GCD(Abs(a), b)
    IN  [num |-> a \div g, den |-> b \div g]

\* the float64 of a whole number
Float(v) == [num |-> v, den |-> 1]

\* ------------------------------------------------------------- metric
NoMetric == [name |-> <<>>, value |-> 0, mean |-> Float(0), time |-> 0, count |-> 0]

EmptyStore == [n \in {} |-> NoMetric]

\* store.update with the mean taken over the count before the fold
updateOldCount(s, m) ==
    LET f == IF m.name \in DOMAIN s
             THEN LET cm == s[m.name]
                      v == cm.value + m.value
                      c == cm.count + 1
                  IN  [m EXCEPT !.value = v, !.count = c, !.mean = Quot(v, cm.count)]
             ELSE m
    IN  [n \in DOMAIN s \cup {m.name} |-> IF n = m.name THEN f ELSE s[n]]

\* store.update: the map after folding m into it
update(s, m) ==
    LET f == IF m.name \in DOMAIN s
             THEN LET cm == s[m.name]
                      v == cm.value + m.value
                      c == cm.count + 1
                  IN  [m EXCEPT !.value = v, !.count = c, !.mean = Quot(v, c)]
             ELSE m
    IN  [n \in DOMAIN s \cup {m.name} |-> IF n = m.name THEN f ELSE s[n]]

\* ------------------------------------------------------ validateName
IsDigit(r) == r >= 48 /\ r <= 57
IsUpper(r) == r >= 65 /\ r <= 90
IsLower(r) == r >= 97 /\ r <= 122

\* the test of one rune at index i (0-based, as range yields it)
RuneOk(i, r) ==
    /\ ~(i = 0 /\ r = Hyphen)
    /\ ~(~IsDigit(r) /\ ~IsUpper(r) /\ ~IsLower(r) /\ r # Hyphen)

validateName(str) ==
    IF Len(str) > MaxNameLen THEN FALSE
    ELSE \A i \in 1..Len(str) : RuneOk(i - 1, str[i])

\* ------------------------------------------------------- parseMetric
\* A line is its fields after strings.Split(line, "\t"): nf fields, the
\* first one the name; val and ts say whether strconv.ParseFloat and
\* time.Parse accept the second and third field, and what they yield.
EmptyLine == [nf |-> 1, name |-> <<>>, val |-> [ok |-> FALSE, v |-> 0],
              ts |-> [ok |-> FALSE, t |-> 0]]

parseMetric(line) ==
    IF line.nf # 3 THEN [err |-> "missing values", m |-> NoMetric]
    ELSE IF ~validateName(line.name) THEN [err |-> "name", m |-> NoMetric]
    ELSE IF ~line.val.ok THEN [err |-> "value not float", m |-> NoMetric]
    ELSE IF ~line.ts.ok THEN [err |-> "time not iso8601", m |-> NoMetric]
    ELSE [err |-> "nil",
          m |-> [name |-> line.name, value |-> line.val.v,
                 mean |-> Float(line.val.v), time |-> line.ts.t, count |-> 1]]

\* ------------------------------------------------------- connHandler
\* The lines a client may put on the wire.
GoodLines ==
    {[nf |-> 3, name |-> n, val |-> [ok |-> TRUE, v |-> v],
      ts |-> [ok |-> TRUE, t |-> t]] :
        n \in Names, v \in Values, t \in Timestamps}

BadLines ==
    {[nf |-> k, name |-> <<97>>, val |-> [ok |-> TRUE, v |-> 1],
      ts |-> [ok |-> TRUE, t |-> 0]] : k \in {2, 4}}
    \cup {[nf |-> 3, name |-> <<97>>, val |-> [ok |-> FALSE, v |-> 0],
           ts |-> [ok |-> TRUE, t |-> 0]],
          [nf |-> 3, name |-> <<97>>, val |-> [ok |-> TRUE, v |-> 1],
           ts |-> [ok |-> FALSE, t |-> 0]]}

\* the bytes before a failure: nothing, a whole record or a broken one
PartialLines ==
    {EmptyLine,
     [nf |-> 3, name |-> <<97>>, val |-> [ok |-> TRUE, v |-> 1],
      ts |-> [ok |-> TRUE, t |-> 0]],
     [nf |-> 2, name |-> <<97>>, val |-> [ok |-> TRUE, v |-> 1],
      ts |-> [ok |-> TRUE, t |-> 0]]}

\* What reader.ReadBytes('\n') can return: b is a line body, a '\r' after
\* it or none and, when the delimiter was found, the '\n' that ends it;
\* err is "nil", "EOF" or "other".  Without the delimiter there is an error.
ReadResults ==
    {[b |-> [body |-> l, cr |-> k, nl |-> TRUE], err |-> "nil"] :
        l \in GoodLines \cup BadLines \cup {EmptyLine}, k \in BOOLEAN}
    \cup {[b |-> [body |-> l, cr |-> FALSE, nl |-> FALSE], err |-> e] :
            l \in PartialLines, e \in {"EOF", "other"}}

\* bytes.Trim(b, "\r\n"): the body without its terminators
Trim(b) == b.body

\* Before that also holds of equal times
BeforeOrEqual(t, u) == t <= u

\* time.Time.Before
Before(t, u) == t < u

\* After that never holds
AfterNever(t, u) == FALSE

\* time.Time.After
After(t, u) == t > u

\* conn.Close() and return
CloseAndReturn ==
    [pc |-> "done", close |-> TRUE, parsed |-> FALSE, m |-> NoMetric]

\* continue: the record is outside the window
Continue ==
    [pc |-> "read", close |-> FALSE, parsed |-> TRUE, m |-> NoMetric]

\* the record goes on to the send on ingress
HandOff(m) ==
    [pc |-> "send", close |-> FALSE, parsed |-> TRUE, m |-> m]

\* the loop body with a parse error path that returns without conn.Close()
readStepNoClose(r, now1, now2) ==
    IF r.err = "EOF" THEN CloseAndReturn
    ELSE LET line == Trim(r.b) IN
         IF line = EmptyLine THEN CloseAndReturn
         ELSE LET p == parseMetric(line) IN
              IF p.err # "nil" THEN [CloseAndReturn EXCEPT !.close = FALSE]
              ELSE IF Before(p.m.time, now1 - WindowSecs) THEN Continue
              ELSE IF After(p.m.time, now2) THEN Continue
              ELSE HandOff(p.m)

\* the loop body with a parse error path that goes on to the next line
readStepSkipBad(r, now1, now2) ==
    IF r.err = "EOF" THEN CloseAndReturn
    ELSE LET line == Trim(r.b) IN
         IF line = EmptyLine THEN CloseAndReturn
         ELSE LET p == parseMetric(line) IN
              IF p.err # "nil" THEN [Continue EXCEPT !.parsed = FALSE]
              ELSE IF Before(p.m.time, now1 - WindowSecs) THEN Continue
              ELSE IF After(p.m.time, now2) THEN Continue
              ELSE HandOff(p.m)

\* the loop body with an empty line that does not end the handler
readStepSkipEmpty(r, now1, now2) ==
    IF r.err = "EOF" THEN CloseAndReturn
    ELSE LET line == Trim(r.b) IN
         IF line = EmptyLine THEN [Continue EXCEPT !.parsed = FALSE]
         ELSE LET p == parseMetric(line) IN
              IF p.err # "nil" THEN CloseAndReturn
              ELSE IF Before(p.m.time, now1 - WindowSecs) THEN Continue
              ELSE IF After(p.m.time, now2) THEN Continue
              ELSE HandOff(p.m)

\* One pass of the loop body, from the return of ReadBytes to the send, a
\* continue or a return: r is what ReadBytes returned, now1 and now2 are
\* the two readings of time.Now(), the second taken only if the first
\* test fails.
readStep(r, now1, now2) ==
    IF r.err = "EOF" THEN CloseAndReturn
    ELSE LET line == Trim(r.b) IN
         IF line = EmptyLine THEN CloseAndReturn
         ELSE LET p == parseMetric(line) IN
              IF p.err # "nil" THEN CloseAndReturn
              ELSE IF Before(p.m.time, now1 - WindowSecs) THEN Continue
              ELSE IF After(p.m.time, now2) THEN Continue
              ELSE HandOff(p.m)

\* every way one pass of the loop body can end, over what ReadBytes and
\* the clock can return
ReadOutcomes ==
    {readStep(r, n[1], n[2]) : r \in ReadResults, n \in ClockPairs}

\* a handler that stays at its send after the send has completed
afterSendStuck == "send"

\* the handler's position once its send on ingress has completed
afterSend == "incr"

\* ---------------------------------------------------------- semaphore
\* a P(1) that never blocks
CanPAlways(s) == TRUE

\* P(1) can complete: the channel has room for one more send
CanP(s) == s < SemCapacity
P(s) == s + 1
\* V(1) can complete: the channel holds a value to receive
CanV(s) == s > 0
V(s) == s - 1

\* ReadBytes returns and the loop body runs to its next blocking point;
\* a return runs the deferred s.Signal()
ReadWith(c, outcomes) ==
    /\ pc[c] = "read"
    /\ \E h \in outcomes :
         /\ h.parsed => reads < MaxRecords
         /\ reads' = IF h.parsed THEN reads + 1 ELSE reads
         /\ pc' = [pc EXCEPT ![c] = h.pc]
         /\ cur' = [cur EXCEPT ![c] = h.m]
         /\ sent' = IF h.pc = "send" THEN [sent EXCEPT ![c] = Append(@, h.m)] ELSE sent
         /\ closed' = [closed EXCEPT ![c] = h.close]
         /\ IF h.pc = "done"
            THEN /\ CanV(sem)
                 /\ sem' = V(sem)
                 /\ released' = [released EXCEPT ![c] = @ + 1]
            ELSE UNCHANGED <<sem, released>>
    /\ UNCHANGED <<accPc, nextConn, rawCount>>
    /\ UNCHANGED <<schedVars, folded, emitted, stderrRaw, fnVars, lockVars>>

\* one pass of the loop body, over everything a client may send
Read(c) == ReadWith(c, ReadOutcomes)

\* atomic.AddUint64(&rawCount, 1), then back to the top of the loop
Incr(c) ==
    /\ pc[c] = "incr"
    /\ rawCount' = rawCount + 1
    /\ pc' = [pc EXCEPT ![c] = "read"]
    /\ cur' = [cur EXCEPT ![c] = NoMetric]
    /\ UNCHANGED <<sem, accPc, nextConn, closed, released, reads>>
    /\ UNCHANGED <<schedVars, histVars, fnVars, lockVars>>

\* ------------------------------------------------------- accept loop
\* sem.Wait(1)
SemWait ==
    /\ accPc = "wait"
    /\ CanP(sem)
    /\ sem' = P(sem)
    /\ accPc' = "accept"
    /\ UNCHANGED <<nextConn, pc, cur, closed, released, reads, rawCount>>
    /\ UNCHANGED <<schedVars, histVars, fnVars, lockVars>>

\* l.Accept() returns a connection; go connHandler(conn, sem, ingress)
AcceptOk ==
    /\ accPc = "accept"
    /\ nextConn <= MaxConns
    /\ pc' = [pc EXCEPT ![nextConn] = "read"]
    /\ nextConn' = nextConn + 1
    /\ accPc' = "wait"
    /\ UNCHANGED <<sem, cur, closed, released, reads, rawCount>>
    /\ UNCHANGED <<schedVars, histVars, fnVars, lockVars>>

\* l.Accept() returns an error; continue
AcceptErr ==
    /\ accPc = "accept"
    /\ accPc' = "wait"
    /\ UNCHANGED <<sem, nextConn, pc, cur, closed, released, reads, rawCount>>
    /\ UNCHANGED <<schedVars, histVars, fnVars, lockVars>>

\* --------------------------------------------------------- scheduler
\* case m := <-ingress: the rendezvous with a handler blocked in its send
Receive(c) ==
    /\ schedPc = "select"
    /\ pc[c] = "send"
    /\ schedPc' = "update"
    /\ schedM' = cur[c]
    /\ schedFrom' = c
    /\ pc' = [pc EXCEPT ![c] = afterSend]
    /\ UNCHANGED <<sem, accPc, nextConn, cur, closed, released, reads>>
    /\ UNCHANGED <<rawCount, store, flushes, rawTicks>>
    /\ UNCHANGED <<histVars, fnVars, lockVars>>

\* a scheduler that puts each fold ahead of the earlier ones
UpdateOutOfOrder ==
    /\ schedPc = "update"
    /\ store' = update(store, schedM)
    /\ folded' = <<[conn |-> schedFrom, m |-> schedM, win |-> flushes]>> \o folded
    /\ schedPc' = "select"
    /\ schedM' = NoMetric
    /\ schedFrom' = 0
    /\ UNCHANGED <<connVars, rawCount, flushes, rawTicks>>
    /\ UNCHANGED <<sent, emitted, stderrRaw, fnVars, lockVars>>

\* _ = store.update(m)
Update ==
    /\ schedPc = "update"
    /\ store' = update(store, schedM)
    /\ folded' = Append(folded, [conn |-> schedFrom, m |-> schedM, win |-> flushes])
    /\ schedPc' = "select"
    /\ schedM' = NoMetric
    /\ schedFrom' = 0
    /\ UNCHANGED <<connVars, rawCount, flushes, rawTicks>>
    /\ UNCHANGED <<sent, emitted, stderrRaw, fnVars, lockVars>>

\* case <-tickerRaw.C: print atomic.LoadUint64(&rawCount)
TickRaw ==
    /\ schedPc = "select"
    /\ rawTicks < MaxRawTicks
    /\ stderrRaw' = Append(stderrRaw, rawCount)
    /\ rawTicks' = rawTicks + 1
    /\ schedPc' = "rawstore"
    /\ UNCHANGED <<connVars, rawCount, store, schedM, schedFrom, flushes>>
    /\ UNCHANGED <<sent, folded, emitted, fnVars, lockVars>>

\* a scheduler that never leaves the raw-counter case
RawStoreStay ==
    /\ schedPc = "rawstore"
    /\ rawCount' = 0
    /\ schedPc' = "rawstore"
    /\ UNCHANGED <<connVars, store, schedM, schedFrom, flushes, rawTicks>>
    /\ UNCHANGED <<histVars, fnVars, lockVars>>

\* atomic.StoreUint64(&rawCount, 0)
RawStore ==
    /\ schedPc = "rawstore"
    /\ rawCount' = 0
    /\ schedPc' = "select"
    /\ UNCHANGED <<connVars, store, schedM, schedFrom, flushes, rawTicks>>
    /\ UNCHANGED <<histVars, fnVars, lockVars>>

\* a range that stops after its first key
RangeKeysFirst(s) == IF DOMAIN s = {} THEN {} ELSE {CHOOSE n \in DOMAIN s : TRUE}

\* the keys a range over the map visits
RangeKeys(s) == DOMAIN s

\* a line that carries the sum in place of the mean
PrintlnValue(m) == [name |-> m.name, mean |-> Float(m.value)]

\* fmt.Fprintln(os.Stdout, m.name, "\t", m.mean)
Println(m) == [name |-> m.name, mean |-> m.mean]

\* the lines of one range over the map, in no order; count is the count of
\* the aggregate a line was printed from
RangeLines(s) == {[line |-> Println(s[n]), count |-> s[n].count] : n \in RangeKeys(s)}

\* a flush that keeps the collection
MakeStoreKeep(s) == s

\* store.data = make(map[string]metric)
MakeStore(s) == EmptyStore

\* case <-tickerCollection.C: print every aggregate, empty the collection
TickCollection ==
    /\ schedPc = "select"
    /\ flushes < MaxFlushes
    /\ emitted' = Append(emitted, RangeLines(store))
    /\ store' = MakeStore(store)
    /\ flushes' = flushes + 1
    /\ UNCHANGED <<connVars, rawCount, schedPc, schedM, schedFrom, rawTicks>>
    /\ UNCHANGED <<sent, folded, stderrRaw, fnVars, lockVars>>

\* ------------------------------------------------------ specification
\* main: an empty store, an empty semaphore, no connection yet
InitSys ==
    /\ sem = 0
    /\ accPc = "wait"
    /\ nextConn = 1
    /\ pc = [c \in Conns |-> "idle"]
    /\ cur = [c \in Conns |-> NoMetric]
    /\ closed = [c \in Conns |-> FALSE]
    /\ released = [c \in Conns |-> 0]
    /\ reads = 0
    /\ rawCount = 0
    /\ store = EmptyStore
    /\ schedPc = "select"
    /\ schedM = NoMetric
    /\ schedFrom = 0
    /\ flushes = 0
    /\ rawTicks = 0
    /\ sent = [c \in Conns |-> <<>>]
    /\ folded = <<>>
    /\ emitted = <<>>
    /\ stderrRaw = <<>>

\* the variant's newStore(): an unlocked mutex, an empty map, no call yet
InitLock ==
    /\ rw = [readers |-> 0, writer |-> 0]
    /\ sdata = EmptyStore
    /\ upc = [h \in Callers |-> "idle"]
    /\ um = [h \in Callers |-> NoMetric]
    /\ uarg = [h \in Callers |-> 0]

Init ==
    /\ InitSys
    /\ InitLock
    /\ fnIn = <<>>
    /\ fnOut = "none"

Next ==
    \/ SemWait
    \/ AcceptOk
    \/ AcceptErr
    \/ \E c \in Conns : Read(c)
    \/ \E c \in Conns : Receive(c)
    \/ \E c \in Conns : Incr(c)
    \/ Update
    \/ TickRaw
    \/ RawStore
    \/ TickCollection

Spec == Init /\ [][Next]_vars

\* One read result for each way the loop body can end: a record of the
\* window, a record that is too old, a broken line and the end of the
\* stream.
OneOfEach ==
    {r \in ReadResults :
        /\ ~r.b.cr
        /\ \/ /\ r.err = "nil"
              /\ r.b.body \in GoodLines
              /\ r.b.body.name = <<97>>
              /\ r.b.body.val.v = 1
              /\ r.b.body.ts.t \in {0 - (WindowSecs + 1), 0}
           \/ /\ r.err = "nil"
              /\ r.b.body \in BadLines
              /\ r.b.body.nf = 2
           \/ /\ r.err = "EOF"
              /\ r.b.body = EmptyLine}

OneOfEachOutcomes ==
    {readStep(r, n[1], n[2]) : r \in OneOfEach, n \in ClockPairs}

\* one pass of the loop body, over one line of each kind
ReadOne(c) == ReadWith(c, OneOfEachOutcomes)

NextFair ==
    \/ SemWait
    \/ AcceptOk
    \/ AcceptErr
    \/ \E c \in Conns : ReadOne(c)
    \/ \E c \in Conns : Receive(c)
    \/ \E c \in Conns : Incr(c)
    \/ Update
    \/ TickRaw
    \/ RawStore
    \/ TickCollection

\* The scheduler goroutine keeps running: it finishes the case it is in,
\* and its select, which picks at random among the cases that are ready,
\* does not pass over a sender that is ready again and again.
SchedulerFair ==
    /\ WF_vars(Update)
    /\ WF_vars(RawStore)
    /\ \A c \in Conns : SF_vars(Receive(c))

SpecFair == Init /\ [][NextFair]_vars /\ SchedulerFair

\* ------------------------------------------- validateName, on its own
\* a name of n runes, all 'a'
Rep(n) == [i \in 1..n |-> 97]

\* every string of at most MaxStrLen runes of the alphabet, and strings
\* around the length limit, some with a rune validateName rejects
NameInputs ==
    UNION {[1..n -> Alphabet] : n \in 0..MaxStrLen}
    \cup {Rep(n) : n \in (MaxNameLen - 1)..(MaxNameLen + 2)}
    \cup {[Rep(n) EXCEPT ![k] = r] :
            n \in {MaxNameLen - 1, MaxNameLen}, k \in {1, 2, MaxNameLen - 1},
            r \in {Hyphen, 33}}

InitName ==
    /\ InitSys
    /\ InitLock
    /\ fnIn \in NameInputs
    /\ fnOut = "none"

ApplyValidateName ==
    /\ fnOut = "none"
    /\ fnOut' = IF validateName(fnIn) THEN "true" ELSE "false"
    /\ UNCHANGED <<connVars, rawCount, schedVars, histVars, fnIn, lockVars>>

NextName == ApplyValidateName

SpecName == InitName /\ [][NextName]_vars

\* ------------------------------------- the loop body, on its own
\* timestamps around both ends of the window
FilterTimes == (0 - (WindowSecs + 2))..(MaxNow + 2)

FilterReads ==
    {[b |-> [body |-> [nf |-> 3, name |-> <<97>>, val |-> [ok |-> TRUE, v |-> 1],
                       ts |-> [ok |-> TRUE, t |-> t]],
             cr |-> FALSE, nl |-> (e = "nil")],
      err |-> e] : t \in FilterTimes, e \in {"nil", "other"}}
    \cup {r \in ReadResults : r.b.body \in BadLines \cup {EmptyLine}}

InitFilter ==
    /\ InitSys
    /\ InitLock
    /\ fnIn \in {[r |-> r, now1 |-> n[1], now2 |-> n[2]] :
                    r \in FilterReads, n \in ClockPairs}
    /\ fnOut = [done |-> FALSE, h |-> Continue]

ApplyReadStep ==
    /\ ~fnOut.done
    /\ fnOut' = [done |-> TRUE, h |-> readStep(fnIn.r, fnIn.now1, fnIn.now2)]
    /\ UNCHANGED <<connVars, rawCount, schedVars, histVars, fnIn, lockVars>>

NextFilter == ApplyReadStep

SpecFilter == InitFilter /\ [][NextFilter]_vars

\* ------------------------- store.update of the variant, under RWMutex
\* The handlers of the variant call s.update(*metric) themselves.  Each
\* handler of Callers makes one call, for the one name "a", and no flush
\* runs meanwhile.
\* s.update(*metric): the call starts with its own copy of the record
UCall(h) ==
    /\ upc[h] = "idle"
    /\ \E v \in Values :
         /\ um' = [um EXCEPT ![h] =
                     [name |-> <<97>>, value |-> v, mean |-> Float(v),
                      time |-> 0, count |-> 1]]
         /\ uarg' = [uarg EXCEPT ![h] = v]
    /\ upc' = [upc EXCEPT ![h] = "rlock"]
    /\ UNCHANGED <<rw, sdata>>
    /\ UNCHANGED <<connVars, rawCount, schedVars, histVars, fnVars>>

\* s.RLock(): waits while a writer holds the mutex
URLock(h) ==
    /\ upc[h] = "rlock"
    /\ rw.writer = 0
    /\ rw' = [rw EXCEPT !.readers = @ + 1]
    /\ upc' = [upc EXCEPT ![h] = "check"]
    /\ UNCHANGED <<sdata, um, uarg>>
    /\ UNCHANGED <<connVars, rawCount, schedVars, histVars, fnVars>>

\* the record of the call after the test of the key: folded onto the
\* aggregate cm read from the map, or as it came
Folded(d, m) ==
    IF m.name \in DOMAIN d
    THEN LET cm == d[m.name]
             v == cm.value + m.value
             c == cm.count + 1
         IN  [m EXCEPT !.value = v, !.count = c, !.mean = Quot(v, c)]
    ELSE m

\* if _, ok := s.data[m.name]; ok { cm := ...; s.RUnlock(); m.value = ... }
\* else { s.RUnlock() }
UCheck(h) ==
    /\ upc[h] = "check"
    /\ um' = [um EXCEPT ![h] = Folded(sdata, um[h])]
    /\ rw' = [rw EXCEPT !.readers = @ - 1]
    /\ upc' = [upc EXCEPT ![h] = "lock"]
    /\ UNCHANGED <<sdata, uarg>>
    /\ UNCHANGED <<connVars, rawCount, schedVars, histVars, fnVars>>

\* s.Lock(): waits while a reader or a writer holds the mutex
ULock(h) ==
    /\ upc[h] = "lock"
    /\ rw.readers = 0
    /\ rw.writer = 0
    /\ rw' = [rw EXCEPT !.writer = h]
    /\ upc' = [upc EXCEPT ![h] = "write"]
    /\ UNCHANGED <<sdata, um, uarg>>
    /\ UNCHANGED <<connVars, rawCount, schedVars, histVars, fnVars>>

\* s.data[m.name] = m
UWrite(h) ==
    /\ upc[h] = "write"
    /\ sdata' = [n \in DOMAIN sdata \cup {um[h].name} |->
                    IF n = um[h].name THEN um[h] ELSE sdata[n]]
    /\ upc' = [upc EXCEPT ![h] = "unlock"]
    /\ UNCHANGED <<rw, um, uarg>>
    /\ UNCHANGED <<connVars, rawCount, schedVars, histVars, fnVars>>

\* s.Unlock(); return nil
UUnlock(h) ==
    /\ upc[h] = "unlock"
    /\ rw' = [rw EXCEPT !.writer = 0]
    /\ upc' = [upc EXCEPT ![h] = "done"]
    /\ UNCHANGED <<sdata, um, uarg>>
    /\ UNCHANGED <<connVars, rawCount, schedVars, histVars, fnVars>>

NextLock ==
    \/ \E h \in Callers : UCall(h)
    \/ \E h \in Callers : URLock(h)
    \/ \E h \in Callers : UCheck(h)
    \/ \E h \in Callers : ULock(h)
    \/ \E h \in Callers : UWrite(h)
    \/ \E h \in Callers : UUnlock(h)

SpecLock == Init /\ [][NextLock]_vars

\* ------------------------------------------------- auxiliary operators
Active == {c \in Conns : pc[c] \in {"read", "send", "incr"}}

RECURSIVE SumSeq(_)
SumSeq(q) == IF q = <<>> THEN 0 ELSE Head(q) + SumSeq(Tail(q))

RECURSIVE SumCounts(_)
SumCounts(S) ==
    IF S = {} THEN 0
    ELSE LET x == CHOOSE y \in S : TRUE IN x.count + SumCounts(S \ {x})

\* the records of name n folded in window w, in fold order
FoldedIn(w, n) == SelectSeq(folded, LAMBDA e : e.win = w /\ e.m.name = n)

\* the names folded in window w
NamesIn(w) == {folded[i].m.name : i \in {j \in 1..Len(folded) : folded[j].win = w}}

ValuesOf(q) == [i \in 1..Len(q) |-> q[i].m.value]

\* the name rule of the data model
NameRule(str) ==
    /\ Len(str) >= 1
    /\ Len(str) <= MaxNameLen
    /\ IsDigit(str[1]) \/ IsUpper(str[1]) \/ IsLower(str[1])
    /\ \A i \in 1..Len(str) :
         IsDigit(str[i]) \/ IsUpper(str[i]) \/ IsLower(str[i]) \/ str[i] = Hyphen

\* ------------------------------------------------------------ claims

\* C1: the handlers that have started and not returned never number more
\* than the semaphore capacity, and when they number exactly the capacity
\* the accept loop stands at sem.Wait(1) with the semaphore full, so that
\* it admits nobody before a handler returns.
C1_AdmissionBound ==
    /\ Cardinality(Active) <= SemCapacity
    /\ Cardinality(Active) = SemCapacity => accPc = "wait" /\ sem = SemCapacity

\* C1 witness: the capacity is used up while the listener has a further
\* connection to hand out
C1_Witness ==
    /\ Cardinality(Active) = SemCapacity
    /\ nextConn <= MaxConns

\* C2: a handler that has returned has closed its connection and has
\* released exactly one slot; one that has not returned has released none.
C2_ExitReleasesOnce ==
    \A c \in Conns :
        /\ pc[c] = "done" => closed[c] /\ released[c] = 1
        /\ pc[c] # "done" => released[c] = 0

\* C2 witness: one handler has returned while another still runs
C2_Witness ==
    \E c, d \in Conns : pc[c] = "done" /\ released[c] = 1 /\ pc[d] = "send"

\* C3: every aggregate of the store has count >= 1, a count equal to the
\* number of records of its name folded since the last flush, a value
\* equal to the total of their values, mean = value / count, and the time
\* of the last of them; the names of the store are the names folded since
\* the last flush.
C3_StoreMatchesWindow ==
    /\ DOMAIN store = NamesIn(flushes)
    /\ \A n \in DOMAIN store :
         LET w == FoldedIn(flushes, n) IN
         /\ store[n].name = n
         /\ store[n].count >= 1
         /\ store[n].count = Len(w)
         /\ store[n].value = SumSeq(ValuesOf(w))
         /\ store[n].mean = Quot(store[n].value, store[n].count)
         /\ store[n].time = w[Len(w)].m.time

\* C3 witness: two records of one name, of values 1 and 3 and of different
\* times, have been folded into one aggregate
C3_Witness ==
    \E n \in DOMAIN store :
        /\ store[n].count = 2
        /\ store[n].value = 4
        /\ store[n].mean = Float(2)
        /\ FoldedIn(flushes, n)[1].m.time # store[n].time

\* C4: per connection, the records the handler took to its send are, in
\* order, the records folded from it, then the one the scheduler has
\* received and not yet folded, then the one the handler is still
\* blocked sending: each is folded once and none is lost.
C4_FoldedExactlyOnce ==
    \A c \in Conns :
        sent[c] =
            [i \in 1..Len(SelectSeq(folded, LAMBDA e : e.conn = c)) |->
                SelectSeq(folded, LAMBDA e : e.conn = c)[i].m]
            \o (IF schedPc = "update" /\ schedFrom = c THEN <<schedM>> ELSE <<>>)
            \o (IF pc[c] = "send" THEN <<cur[c]>> ELSE <<>>)

\* C4 witness: two handlers have each had a record folded, with a flush
\* and a raw-counter tick in the run
C4_Witness ==
    /\ \E c, d \in Conns :
         /\ c # d
         /\ \E i, j \in 1..Len(folded) : folded[i].conn = c /\ folded[j].conn = d
    /\ flushes >= 1
    /\ rawTicks >= 1

\* C5: a flush tick leaves the store empty, and a fold of a name that is
\* not in the store makes an aggregate of count 1 whose value and mean
\* are the record's value.
C5_FlushResets ==
    [][/\ flushes' = flushes + 1 => DOMAIN store' = {}
       /\ \A n \in DOMAIN store' \ DOMAIN store :
            /\ store'[n].count = 1
            /\ store'[n].value = schedM.value
            /\ store'[n].mean = Float(schedM.value)]_vars

\* C5 witness: a name printed by the first flush is in the store again,
\* with count 1
C5_Witness ==
    /\ flushes >= 1
    /\ \E n \in DOMAIN store :
         /\ store[n].count = 1
         /\ \E l \in emitted[1] : l.line.name = n

\* C6: the lines of each flush are one line for each name folded in its
\* window and no other line, and the line of a name carries the mean of
\* the records of that name in the window.
C6_FlushLines ==
    \A k \in 1..Len(emitted) :
        /\ {l.line.name : l \in emitted[k]} = NamesIn(k - 1)
        /\ \A n \in NamesIn(k - 1) :
             LET w == FoldedIn(k - 1, n) IN
             {l.line : l \in {x \in emitted[k] : x.line.name = n}} =
                 {[name |-> n, mean |-> Quot(SumSeq(ValuesOf(w)), Len(w))]}

\* C6 witness: a flush has printed, for a name with two records of values
\* 1 and 3, one line that carries the mean 2
C6_Witness ==
    \E k \in 1..Len(emitted) :
        \E l \in emitted[k] :
            /\ l.count = 2
            /\ l.line.mean = Float(2)
            /\ Len(FoldedIn(k - 1, l.line.name)) = 2

\* C7: the counts printed by the flushes so far and the counts in the
\* store add up to the number of records folded so far.
C7_FlushAtomic ==
    SumSeq([k \in 1..Len(emitted) |-> SumCounts(emitted[k])])
        + SumCounts({store[n] : n \in DOMAIN store})
    = Len(folded)

\* C7 witness: a record was printed by a flush and another was folded
\* after that flush
C7_Witness ==
    /\ flushes >= 1
    /\ emitted[1] # {}
    /\ store # EmptyStore
    /\ Len(folded) = 2

\* C8: a line that parses is taken to the send on ingress exactly when its
\* timestamp ts satisfies now - 60 <= ts <= now at filter time, both ends
\* included.  The filter reads the clock twice, now1 for the lower end and
\* now2 >= now1 for the upper end: a record taken to the send is inside
\* the window at some instant now of now1..now2, a record not taken is
\* outside the window at every such instant, and then the handler goes
\* back to reading with the connection open.
C8_WindowFilter ==
    fnOut.done =>
        LET line == Trim(fnIn.r.b)
            p == parseMetric(line)
            InWindow(now) == now - WindowSecs <= p.m.time /\ p.m.time <= now
        IN  (fnIn.r.err # "EOF" /\ line # EmptyLine /\ p.err = "nil") =>
                /\ fnOut.h.pc = "send" <=>
                       (fnIn.now1 - WindowSecs <= p.m.time /\ p.m.time <= fnIn.now2)
                /\ fnOut.h.pc = "send" =>
                       /\ fnOut.h.m = p.m
                       /\ \E now \in fnIn.now1..fnIn.now2 : InWindow(now)
                /\ fnOut.h.pc # "send" =>
                       /\ fnOut.h.pc = "read"
                       /\ ~fnOut.h.close
                       /\ \A now \in fnIn.now1..fnIn.now2 : ~InWindow(now)

\* C8 witness: a record timestamped exactly 60 s before the first clock
\* reading is taken to the send
C8_Witness ==
    /\ fnOut.done
    /\ fnOut.h.pc = "send"
    /\ fnOut.h.m.time = fnIn.now1 - WindowSecs

\* C9: validateName(s) is true exactly when s satisfies the name rule:
\* 1 to 64 runes, the first alphanumeric, the others alphanumeric or '-'.
C9_NameRuleIff ==
    fnOut # "none" => (fnOut = "true" <=> NameRule(fnIn))

\* C10: every name in the store, and the name of the record the scheduler
\* holds, satisfies the name rule, and the record was parsed from a line.
C10_OnlyValidRecords ==
    /\ \A n \in DOMAIN store : NameRule(n) /\ store[n].count >= 1
    /\ schedPc = "update" => NameRule(schedM.name) /\ schedM.count = 1

\* the records whose send on ingress has completed
HandedOff == Len(folded) + (IF schedPc = "update" THEN 1 ELSE 0)

\* C11: the value each raw-counter tick writes is the number of records
\* folded into the store since the previous raw-counter tick: right after
\* a tick has written its value, the values written so far add up to the
\* number of records folded so far.
C11_RawTickCountsFolds ==
    schedPc = "rawstore" => SumSeq(stderrRaw) = Len(folded)

\* C12: the read-and-reset of the raw counter loses no increment: when no
\* handler has an increment pending and no reset is pending, the values
\* written by the ticks and the counter add up to the number of records
\* handed off.
C12_NoIncrementLost ==
    ((\A c \in Conns : pc[c] # "incr") /\ schedPc # "rawstore") =>
        SumSeq(stderrRaw) + rawCount = HandedOff

\* the records folded from connection c, in fold order
FoldedFrom(c) ==
    [i \in 1..Len(SelectSeq(folded, LAMBDA e : e.conn = c)) |->
        SelectSeq(folded, LAMBDA e : e.conn = c)[i].m]

\* C13: the records folded from one connection are folded in the order
\* the handler read them: they are, in order, the first of the records
\* the handler took to its send.  (Nothing orders the folds of different
\* connections.)
C13_PerConnectionOrder ==
    \A c \in Conns :
        /\ Len(FoldedFrom(c)) <= Len(sent[c])
        /\ \A i \in 1..Len(FoldedFrom(c)) : FoldedFrom(c)[i] = sent[c][i]

\* C13 witness: two different records of one connection have both been
\* folded
C13_Witness ==
    \E c \in Conns :
        /\ Len(sent[c]) = 2
        /\ sent[c][1] # sent[c][2]
        /\ Len(FoldedFrom(c)) = 2

\* a step of handler c in which ReadBytes has returned and the loop body
\* has ended with outcome h
ReadStepOf(c, h) ==
    /\ pc[c] = "read"
    /\ pc'[c] = h.pc
    /\ cur'[c] = h.m
    /\ closed'[c] = h.close
    /\ reads' = (IF h.parsed THEN reads + 1 ELSE reads)
    /\ sent'[c] = (IF h.pc = "send" THEN Append(sent[c], h.m) ELSE sent[c])

\* the step leaves every handler but c as it was
OthersUnchanged(c) ==
    \A d \in Conns \ {c} :
        /\ pc'[d] = pc[d]
        /\ cur'[d] = cur[d]
        /\ closed'[d] = closed[d]
        /\ released'[d] = released[d]
        /\ sent'[d] = sent[d]

\* how the loop body ends for the lines that are read without EOF, are
\* not empty and fail to parse
ParseFailOutcomes ==
    {readStep(r, n[1], n[2]) :
        r \in {x \in ReadResults :
                 /\ x.err # "EOF"
                 /\ Trim(x.b) # EmptyLine
                 /\ parseMetric(Trim(x.b)).err # "nil"},
        n \in ClockPairs}

\* C14: on a line that fails to parse the handler closes its connection
\* and returns without sending on ingress, and that step leaves the
\* store, rawCount, the scheduler and every other handler as they were.
C14_ParseFailureFrame ==
    [][\A c \in Conns : \A h \in ParseFailOutcomes :
         ReadStepOf(c, h) =>
            /\ pc'[c] = "done"
            /\ closed'[c]
            /\ sent' = sent
            /\ store' = store
            /\ rawCount' = rawCount
            /\ schedPc' = schedPc /\ schedM' = schedM
            /\ OthersUnchanged(c)]_vars

\* C14 witness: a handler has returned on a line that fails to parse,
\* having sent nothing, while another handler is blocked in its send and
\* the store and rawCount hold a record
C14_Witness ==
    /\ CloseAndReturn \in ParseFailOutcomes
    /\ \E c, d \in Conns :
         /\ pc[c] = "done" /\ closed[c] /\ sent[c] = <<>>
         /\ pc[d] = "send"
    /\ store # EmptyStore
    /\ rawCount = 1

\* how the loop body ends for the lines that parse and whose timestamp is
\* more than 60 s before the first clock reading or after the second
FilterRejectOutcomes ==
    {readStep(x.r, x.n[1], x.n[2]) :
        x \in {y \in [r : ReadResults, n : ClockPairs] :
                 /\ y.r.err # "EOF"
                 /\ Trim(y.r.b) # EmptyLine
                 /\ parseMetric(Trim(y.r.b)).err = "nil"
                 /\ \/ y.r.b.body.ts.t < y.n[1] - WindowSecs
                    \/ y.r.b.body.ts.t > y.n[2]}}

\* C15: when the filter rejects a record the handler sends nothing, keeps
\* its connection open and its slot, and is back at reading the next
\* line; the store and rawCount are as they were.  (The step is told from
\* the steps of the other handlers by their positions, which it leaves.)
C15_FilterRejectFrame ==
    [][\A c \in Conns : \A h \in FilterRejectOutcomes :
         (ReadStepOf(c, h) /\ \A d \in Conns \ {c} : pc'[d] = pc[d]) =>
            /\ pc'[c] = "read"
            /\ ~closed'[c]
            /\ released'[c] = 0
            /\ sem' = sem
            /\ sent' = sent
            /\ store' = store
            /\ rawCount' = rawCount
            /\ schedPc' = schedPc /\ schedM' = schedM]_vars

\* C15 witness: the only handler is at the send of the first record it
\* hands off after two lines that parsed: the filter rejected the first,
\* the handler kept the connection and the slot and read the next line
C15_Witness ==
    /\ nextConn = 2
    /\ pc[1] = "send"
    /\ reads = 2
    /\ Len(sent[1]) = 1
    /\ folded = <<>>
    /\ ~closed[1]
    /\ released[1] = 0
    /\ sem >= 1
    /\ FilterRejectOutcomes = {Continue}

\* how the loop body ends for "\n" and "\r\n"
EmptyLineOutcomes ==
    {readStep(r, n[1], n[2]) :
        r \in {x \in ReadResults : x.err = "nil" /\ Trim(x.b) = EmptyLine},
        n \in ClockPairs}

\* an empty line makes the handler close and return; the step sends
\* nothing and leaves the folded records and the store as they were
EmptyLineStep ==
    \A c \in Conns : \A h \in EmptyLineOutcomes :
        ReadStepOf(c, h) =>
            /\ pc'[c] = "done"
            /\ closed'[c]
            /\ sent' = sent
            /\ folded' = folded
            /\ store' = store

\* handler c has returned after handing off two records of one name, and
\* both were folded in window w
TwoFoldedIn(c, w) ==
    /\ pc[c] = "done"
    /\ Len(sent[c]) = 2
    /\ sent[c][1].name = sent[c][2].name
    /\ Len(FoldedFrom(c)) = 2
    /\ \A i \in 1..Len(folded) : folded[i].conn = c => folded[i].win = w

\* the flush of window w printed one line for name n, from an aggregate
\* that counts every record of n in the window; v is the total of two of
\* them
OneLineFor(n, w, v) ==
    LET lines == {l \in emitted[w + 1] : l.line.name = n} IN
    /\ Cardinality(lines) = 1
    /\ \A l \in lines :
         /\ l.count = Len(FoldedIn(w, n))
         /\ l.count >= 2
         /\ l.count = 2 => l.line.mean = Quot(v, 2)

EarlierRecordsStay ==
    \A c \in Conns : \A w \in 0..(Len(emitted) - 1) :
        TwoFoldedIn(c, w) =>
            OneLineFor(sent[c][1].name, w, sent[c][1].value + sent[c][2].value)

ReadFailOutcomes ==
    {readStep(r, n[1], n[2]) :
        r \in {x \in ReadResults : x.err = "other"}, n \in ClockPairs}

\* C17: when ReadBytes fails other than with EOF the handler closes its
\* connection, releases its slot and returns at that read, and sends
\* nothing of the bytes that came with the failure.
C17_ReadFailureTearsDown ==
    [][\A c \in Conns : \A h \in ReadFailOutcomes :
         ReadStepOf(c, h) =>
            /\ pc'[c] = "done"
            /\ closed'[c]
            /\ released'[c] = released[c] + 1
            /\ sent' = sent]_vars

\* C18: the occupied slots of the semaphore are one for each active
\* handler and one more while the accept loop is in l.Accept(): a slot
\* taken before an Accept that fails is given back.
C18_SlotsMatchHandlers ==
    sem = Cardinality(Active) + (IF accPc = "accept" THEN 1 ELSE 0)

\* C19: with the scheduler goroutine scheduled fairly, a handler blocked
\* in its send on ingress is received from and goes on, and the scheduler
\* comes back to its select from every case it has entered.
C19_BlockedSenderProceeds ==
    /\ \A c \in Conns : (pc[c] = "send") ~> (pc[c] # "send")
    /\ (schedPc # "select") ~> (schedPc = "select")

\* C19 witness: a handler is blocked in its send while the scheduler is
\* busy with the record it has received from another handler, after a
\* raw-counter tick
C19_Witness ==
    \E c, d \in Conns :
        /\ c # d
        /\ pc[c] = "send"
        /\ pc[d] = "incr"
        /\ schedPc = "update"
        /\ schedFrom = d
        /\ rawTicks = 1

\* the total of the values the calls of the handlers of S were made with
RECURSIVE SumArgs(_)
SumArgs(S) ==
    IF S = {} THEN 0
    ELSE LET h == CHOOSE x \in S : TRUE IN uarg[h] + SumArgs(S \ {h})

\* the handlers of the variant whose call of store.update has returned
Returned == {h \in Callers : upc[h] = "done"}

\* C20: in the variant, once every call of store.update that was made
\* has returned, the aggregate of the name counts the calls and its
\* value is the total of their values: no update is lost.
C20_NoUpdateLost ==
    ((\A h \in Callers : upc[h] \in {"idle", "done"}) /\ Returned # {}) =>
        /\ <<97>> \in DOMAIN sdata
        /\ sdata[<<97>>].count = Cardinality(Returned)
        /\ sdata[<<97>>].value = SumArgs(Returned)

====
